---- MODULE Spec2Model ----
(***************************************************************************)
(* Model of the BARS audio container engine of                             *)
(* scripts/mk8dx_audio_classes.py: the container (Bars), its metadata      *)
(* records (Amta) and its assets (Bwav / RawAsset), with the operations    *)
(* parse, write, replace and insert.                                       *)
(*                                                                         *)
(* Byte strings are kept as sequences of runs ("atoms"): a run of n bytes  *)
(* taken from position o of the content named t (t = 0: zero bytes,        *)
(* t = HdrTag: the structured header block of a BWAV, whose fields are in  *)
(* h).  Sizes and offsets are the byte counts of the program.              *)
(*                                                                         *)
(* Spec runs the container operations on the files of InputFiles.  The     *)
(* further specifications run one function, or one group of functions, on  *)
(* inputs of their own: PadSpec (pad_count, pad_till), ConvSpec            *)
(* (Bwav.convert_to_prefetch), DecodeSpec (Bwav.decode_channel with limits *)
(* and its cache), AdpcmSpec (the DSP-ADPCM decode under every header      *)
(* byte, on byte sequences), LoadSpec (Bwav.__init__ on the bytes of an    *)
(* asset), RecordSpec (Amta.write of a new record at every offset),        *)
(* TransferSpec (scripts/bars_transfer.py: the slots of a destination file *)
(* overwritten with assets of a source) and StaleSpec (decodes and         *)
(* conversions of one asset, with the cache of decoded channels).          *)
(***************************************************************************)
EXTENDS Integers, Sequences, FiniteSets, TLC

VARIABLES bars, prev, last, steps, pad, conv, dec

vars == <<bars, prev, last, steps, pad, conv, dec>>

----------------------------------------------------------------------------
(* Program constants *)

Align == 64
MetaAlign == 4
BarsFixedHeader == 16
HashEntrySize == 4
PairEntrySize == 8
BwavHeaderSize == 16
ChannelInfoSize == 76
AmtaFixedSize == 44
NewAmtaDataSize == 26
AmtaHeaderSize == 36
NewAmtaUnknownOffset == 52
UnknownSectionSize == 24
Pcm16PrefetchSamples == 4096
AdpcmPrefetchSamples == 14336
PrefetchBytes == 8192
OpusPrefetchSamples == 36864
OpusPrefetchBytes == 74240
SamplesPerFrame == 14

(* Bounds of the model *)
MaxOps == 2
MaxPos == 130
MaxAlign == 8
MaxChannels == 2
MaxLimit == 8
MaxCalls == 2

----------------------------------------------------------------------------
(* Arithmetic and sequence helpers *)

Min(S) == CHOOSE x \in S : \A y \in S : x <= y
Max(S) == CHOOSE x \in S : \A y \in S : x >= y

(* pad_count without the case of a position already aligned *)
pad_count_AlwaysPads(pos, multiplier) == multiplier - (pos % multiplier)

pad_count(pos, multiplier) ==
  LET diff == pos % multiplier
  IN IF diff = 0 THEN 0 ELSE multiplier - diff

pad_till(pos, multiplier) == pos + pad_count(pos, multiplier)

RECURSIVE SumSeq(_)
SumSeq(s) == IF s = <<>> THEN 0 ELSE Head(s) + SumSeq(Tail(s))

InsertAt(s, p, x) == SubSeq(s, 1, p - 1) \o <<x>> \o SubSeq(s, p, Len(s))

Take(s, n) == SubSeq(s, 1, IF n < Len(s) THEN n ELSE Len(s))

----------------------------------------------------------------------------
(* Byte strings as runs *)

HdrTag == -1
MetaTag == -2
NoHdr ==
  [prefetch |-> FALSE, ch |-> <<>>, name |-> 0, size |-> 0, unk |-> 0, data |-> 0,
   nameEnd |-> 0]

Bytes(t, n) == IF n = 0 THEN <<>> ELSE <<[t |-> t, o |-> 0, n |-> n, h |-> NoHdr]>>
Zeros(n) == Bytes(0, n)

ByteLen(s) == SumSeq([i \in DOMAIN s |-> s[i].n])

Joins(a, b) ==
  /\ a.t = b.t
  /\ a.h = b.h
  /\ \/ a.t = 0
     \/ a.o + a.n = b.o

RECURSIVE Norm(_)
Norm(s) ==
  IF s = <<>> THEN <<>>
  ELSE IF Head(s).n = 0 THEN Norm(Tail(s))
  ELSE IF Len(s) = 1 THEN s
  ELSE IF s[2].n = 0 THEN Norm(<<s[1]>> \o Tail(Tail(s)))
  ELSE IF Joins(s[1], s[2])
       THEN Norm(<<[s[1] EXCEPT !.n = @ + s[2].n]>> \o Tail(Tail(s)))
       ELSE <<s[1]>> \o Norm(Tail(s))

(* bytes [a, b) of s, clipped to s: the Python slice s[a:b] and a read of  *)
(* b - a bytes at position a of a BytesIO over s                           *)
RECURSIVE SliceFrom(_, _, _, _)
SliceFrom(s, pos, a, b) ==
  IF s = <<>> \/ pos >= b THEN <<>>
  ELSE LET x == Head(s)
           lo == IF a > pos THEN a ELSE pos
           hi == IF b < pos + x.n THEN b ELSE pos + x.n
       IN (IF lo < hi
           THEN <<[x EXCEPT !.o = IF x.t = 0 THEN 0 ELSE @ + (lo - pos), !.n = hi - lo]>>
           ELSE <<>>)
          \o SliceFrom(Tail(s), pos + x.n, a, b)

Slice(s, a, b) == Norm(SliceFrom(s, 0, a, b))

(* a file image: writes in program order, a later write covering an       *)
(* earlier one; bytes never written below the end read as zero             *)
RECURSIVE PlaceSeq(_, _)
PlaceSeq(s, base) ==
  IF s = <<>> THEN <<>>
  ELSE <<[off |-> base, a |-> Head(s)]>> \o PlaceSeq(Tail(s), base + Head(s).n)

ImageEnd(W) == IF W = <<>> THEN 0 ELSE Max({W[k].off + W[k].a.n : k \in DOMAIN W})

RECURSIVE ReadRuns(_, _, _, _)
ReadRuns(W, flen, p, q) ==
  LET e == IF q < flen THEN q ELSE flen
  IN IF p >= e THEN <<>>
     ELSE LET cov == {k \in DOMAIN W : W[k].off <= p /\ p < W[k].off + W[k].a.n}
              k == IF cov = {} THEN 0 ELSE Max(cov)
              stops == {W[j].off : j \in {j \in DOMAIN W : j > k /\ W[j].off > p}}
                         \cup {e}
                         \cup (IF k = 0 THEN {} ELSE {W[k].off + W[k].a.n})
              nx == Min(stops)
              piece == IF k = 0 THEN Zeros(nx - p)
                       ELSE <<[W[k].a EXCEPT
                                 !.o = IF W[k].a.t = 0 THEN 0 ELSE @ + (p - W[k].off),
                                 !.n = nx - p]>>
          IN piece \o ReadRuns(W, flen, nx, q)

ReadImage(W, flen, off, n) == Norm(ReadRuns(W, flen, off, off + n))

----------------------------------------------------------------------------
(* Assets: Bwav (parsed = TRUE, header and channels) and RawAsset / Bwav   *)
(* with raw_bytes (parsed = FALSE, bytes in raw).  oid is the identity of  *)
(* the Python object: two entries reference the same asset when the oids   *)
(* are equal.                                                              *)

RawAsset(oid, data) ==
  [oid |-> oid, parsed |-> FALSE, prefetch |-> FALSE, ch |-> <<>>, raw |-> data]

Channel(codec, nsamp, start, data) ==
  [codec |-> codec, nsamp |-> nsamp, start |-> start, data |-> data]

Bwav(oid, prefetch, ch) ==
  [oid |-> oid, parsed |-> TRUE, prefetch |-> prefetch, ch |-> ch, raw |-> <<>>]

HeaderOf(a) ==
  [NoHdr EXCEPT
     !.prefetch = a.prefetch,
     !.ch = [i \in DOMAIN a.ch |->
               [codec |-> a.ch[i].codec, nsamp |-> a.ch[i].nsamp, start |-> a.ch[i].start]]]

HeaderLen(nch) == BwavHeaderSize + ChannelInfoSize * nch

(* what the asset holds, apart from the identity of the object *)
Content(a) == [a EXCEPT !.oid = 0]

Bwav_get_size(a) ==
  IF ~a.parsed THEN ByteLen(a.raw)
  ELSE LET n == Len(a.ch)
           header_and_info_part == HeaderLen(n)
           unique_samples == {i \in 1..n : \A j \in 1..(i - 1) : a.ch[j].start # a.ch[i].start}
           last_idx == Max(unique_samples)
           samples_part ==
             SumSeq([i \in 1..n |->
                       IF i \notin unique_samples THEN 0
                       ELSE IF i # last_idx THEN pad_till(ByteLen(a.ch[i].data), Align)
                       ELSE ByteLen(a.ch[i].data)])
       IN IF samples_part > 0 THEN pad_till(header_and_info_part, Align) + samples_part
          ELSE header_and_info_part

(* the writes of Bwav.write / RawAsset.write at position pos *)
RECURSIVE ChannelWrites(_, _, _)
ChannelWrites(a, pos, i) ==
  IF i > Len(a.ch) THEN <<>>
  ELSE PlaceSeq(a.ch[i].data, pos + a.ch[i].start) \o ChannelWrites(a, pos, i + 1)

Bwav_write(a, pos) ==
  IF ~a.parsed THEN PlaceSeq(a.raw, pos)
  ELSE <<[off |-> pos,
          a |-> [t |-> HdrTag, o |-> 0, n |-> HeaderLen(Len(a.ch)), h |-> HeaderOf(a)]]>>
       \o ChannelWrites(a, pos, 1)

(* _load_asset_from_bytes: the magic decides between Bwav and RawAsset *)
HasBwavMagic(data) ==
  /\ data # <<>>
  /\ data[1].t = HdrTag
  /\ data[1].o = 0
  /\ data[1].n >= 4

(* a header or channel-info block cut short makes struct.unpack raise *)
LoadRaises(data) ==
  /\ HasBwavMagic(data)
  /\ \/ data[1].n < HeaderLen(Len(data[1].h.ch))
     \/ Len(data[1].h.ch) = 0

load_asset_from_bytes(data, oid) ==
  IF ~HasBwavMagic(data) THEN RawAsset(oid, data)
  ELSE LET h == data[1].h
           size == ByteLen(data)
           samples_size == size - h.ch[Len(h.ch)].start
       IN Bwav(oid, h.prefetch,
               [i \in DOMAIN h.ch |->
                  Channel(h.ch[i].codec, h.ch[i].nsamp, h.ch[i].start,
                          IF samples_size > 0
                          THEN Slice(data, h.ch[i].start, h.ch[i].start + samples_size)
                          ELSE <<>>)])

(* the clone made by the *_from_memory operations: write to a buffer, load *)
CloneAsset(a, oid) ==
  LET W == Bwav_write(a, 0)
  IN load_asset_from_bytes(ReadImage(W, ImageEnd(W), 0, ImageEnd(W)), oid)

(* the codecs the tables of convert_to_prefetch have an entry for *)
KnownCodecs == {0, 1, 2}

codec_samples(codec) ==
  CASE codec = 0 -> Pcm16PrefetchSamples
    [] codec = 1 -> AdpcmPrefetchSamples
    [] OTHER -> OpusPrefetchSamples

codec_bytes(codec) == IF codec = 2 THEN OpusPrefetchBytes ELSE PrefetchBytes

(* what the Opus codec (pyogg, outside the repository) makes of a channel:  *)
(* the encoder turns every 1920 bytes of PCM, the last ones filled up, into *)
(* a packet behind a 40-byte header; the decoder turns a stream into PCM    *)
(* bytes, a content of their own, whose length is a property of the stream *)
OpusHeaderSize == 40
OpusFrameBytes == 1920
OpusPacketSize == 128
EncodedTag == 300

OpusEncoded(pcm) ==
  Bytes(EncodedTag + (IF pcm = <<>> THEN 0 ELSE pcm[1].t),
        OpusHeaderSize
          + OpusPacketSize * ((ByteLen(pcm) + OpusFrameBytes - 1) \div OpusFrameBytes))

OpusPcmLen(data) ==
  IF data = <<>> THEN 0
  ELSE CASE data[1].t = 21 -> 73728
         [] data[1].t = 22 -> 74752
         [] data[1].t >= EncodedTag ->
              OpusFrameBytes * ((data[1].n - OpusHeaderSize) \div OpusPacketSize)
         [] OTHER -> 1024

OpusPcm(data) == IF data = <<>> THEN <<>> ELSE Bytes(100 + data[1].t, OpusPcmLen(data))

(* the PCM bytes of decode_channel(idx, sample_limit) on an Opus channel *)
OpusDecoded(data, sample_limit) ==
  IF sample_limit > 0 THEN Slice(OpusPcm(data), 0, 2 * sample_limit) ELSE OpusPcm(data)

(* decoded_channels: per channel None (cached = FALSE) or the PCM of the    *)
(* samples of a whole decode; a list without samples counts as no entry    *)
NoEntry == [cached |-> FALSE, pcm |-> <<>>]
NothingCached(a) == [i \in DOMAIN a.ch |-> NoEntry]
Entry(pcm) == [cached |-> TRUE, pcm |-> pcm]
Truthy(entry) == entry.cached /\ entry.pcm # <<>>

(* Bwav.convert_to_prefetch: the result, the asset and the cache           *)
(* afterwards, and whether the call raised (a codec outside the tables).   *)
(* The samples of an Opus channel come from decode_channel(idx, req_bytes  *)
(* // 2): the cache entry if there is one, else a decode that is cached    *)
(* when it did not stop at the limit.                                      *)
RECURSIVE PrefetchLoop(_, _, _, _)
PrefetchLoop(a, cache, idx, converted) ==
  IF idx > Len(a.ch)
  THEN [res |-> converted, a |-> [a EXCEPT !.prefetch = converted], cache |-> cache,
        raised |-> FALSE]
  ELSE LET c == a.ch[idx]
           req_samples == codec_samples(c.codec)
           req_bytes == codec_bytes(c.codec)
           hit == Truthy(cache[idx])
           samples == IF c.codec # 2 THEN c.data
                      ELSE IF hit THEN Slice(cache[idx].pcm, 0, 2 * (req_bytes \div 2))
                      ELSE OpusDecoded(c.data, req_bytes \div 2)
           kept == IF c.codec = 2 /\ ~hit /\ OpusPcmLen(c.data) <= 2 * (req_bytes \div 2)
                   THEN [cache EXCEPT ![idx] = Entry(OpusPcm(c.data))]
                   ELSE cache
       IN IF c.codec \notin KnownCodecs
          THEN [res |-> FALSE, a |-> a, cache |-> cache, raised |-> TRUE]
          ELSE IF c.nsamp < req_samples /\ ByteLen(samples) < req_bytes
          THEN PrefetchLoop(a, kept, idx + 1, converted)
          ELSE PrefetchLoop(
                 [a EXCEPT !.ch[idx] =
                    Channel(c.codec, req_samples,
                            a.ch[1].start + (idx - 1) * req_bytes,
                            Slice(samples, 0, req_bytes))],
                 kept, idx + 1, TRUE)

(* convert_to_prefetch on an asset with the cache given *)
convert_to_prefetch_cached(a, cache) ==
  IF ~a.parsed THEN [res |-> FALSE, a |-> a, cache |-> cache, raised |-> FALSE]
  ELSE IF a.prefetch THEN [res |-> TRUE, a |-> a, cache |-> cache, raised |-> FALSE]
  ELSE PrefetchLoop(a, cache, 1, FALSE)

(* convert_to_prefetch without the early return for a prefetch asset *)
convert_to_prefetch_NoEarlyReturn(a) ==
  IF ~a.parsed THEN [res |-> FALSE, a |-> a, cache |-> <<>>, raised |-> FALSE]
  ELSE PrefetchLoop(a, NothingCached(a), 1, FALSE)

(* convert_to_prefetch on an asset just loaded: nothing is cached *)
convert_to_prefetch(a) ==
  IF ~a.parsed THEN [res |-> FALSE, a |-> a, cache |-> <<>>, raised |-> FALSE]
  ELSE convert_to_prefetch_cached(a, NothingCached(a))

(* Bwav.get_peak_volume raises when the decode of every channel is empty   *)
(* (max of an empty sequence); a raw asset has peak 1.0                    *)
DecodesNothing(c) ==
  \/ c.codec \notin KnownCodecs
  \/ c.codec = 0 /\ ByteLen(c.data) < 2
  \/ c.codec = 1 /\ c.nsamp = 0
  \/ c.codec = 2 /\ OpusPcmLen(c.data) < 2

PeakVolumeRaises(a) == a.parsed /\ \A i \in DOMAIN a.ch : DecodesNothing(a.ch[i])

----------------------------------------------------------------------------
(* Names and their hashes.  A name is a small number; NameLen is the       *)
(* length of its UTF-8 bytes and calculate_crc32_hash its CRC32.           *)

Garbled == 0
NameLen(name) == IF name = 4 THEN 9 ELSE IF name = 5 THEN 6 ELSE 5
calculate_crc32_hash(name) ==
  CASE name = 1 -> 10
    [] name = 2 -> 20
    [] name = 3 -> 30
    [] name = 4 -> 25
    [] OTHER -> 40

----------------------------------------------------------------------------
(* Metadata records (Amta).  bytes: raw_bytes, the span captured by the    *)
(* parse (empty for a record built by create_new_amta); raw: raw_bytes is  *)
(* truthy, so write and get_size pass the span through; unk, data, rest:   *)
(* UNKNOWN_offset, len(rest_of_data), len(rest_of_file), from which a      *)
(* record without a span is written.                                       *)

AmtaBytes(name, size, len, unk, data, nameEnd) ==
  <<[t |-> MetaTag, o |-> 0, n |-> len,
     h |-> [NoHdr EXCEPT !.name = name, !.size = size, !.unk = unk, !.data = data,
                         !.nameEnd = nameEnd]]>>

(* parsed tells a record Amta.__init__ read from a file from one that      *)
(* create_new_amta built; raw is the truth value of raw_bytes              *)
ParsedAmta(name, bytes, unk, data, rest) ==
  [name |-> name, parsed |-> TRUE, raw |-> bytes # <<>>, bytes |-> bytes,
   unk |-> unk, data |-> data, rest |-> rest]

create_new_amta(name) ==
  [name |-> name, parsed |-> FALSE, raw |-> FALSE, bytes |-> <<>>,
   unk |-> NewAmtaUnknownOffset, data |-> NewAmtaDataSize, rest |-> NameLen(name) + 1]

(* header, DATA tag and length, rest_of_data, rest_of_file (name and NUL) *)
NewAmtaLen(m) == AmtaFixedSize + m.data + m.rest

Amta_get_size(m) ==
  IF m.raw THEN ByteLen(m.bytes) ELSE pad_till(NewAmtaLen(m), MetaAlign)

(* Amta.write that serialises the fields of every record *)
Amta_write_Rebuilds(m, pos) ==
  PlaceSeq(
    AmtaBytes(m.name, pad_till(NewAmtaLen(m), MetaAlign), NewAmtaLen(m), m.unk, m.data,
              NewAmtaLen(m))
    \o Zeros(pad_count(pos + NewAmtaLen(m), MetaAlign)),
    pos)

Amta_write(m, pos) ==
  IF m.raw THEN PlaceSeq(m.bytes, pos)
  ELSE PlaceSeq(
         AmtaBytes(m.name, Amta_get_size(m), NewAmtaLen(m), m.unk, m.data, NewAmtaLen(m))
         \o Zeros(pad_count(pos + NewAmtaLen(m), MetaAlign)),
         pos)

(* Amta.__init__ at start_pos of the image: the magic must be there, the   *)
(* UNKNOWN section must be readable, the record is the declared size       *)
AmtaRaises(W, flen, start_pos) ==
  LET head == ReadImage(W, flen, start_pos, AmtaHeaderSize)
  IN \/ Len(head) # 1
     \/ head[1].t # MetaTag
     \/ head[1].o # 0
     \/ head[1].n # AmtaHeaderSize
     \/ start_pos + head[1].h.unk + UnknownSectionSize > flen

Amta_parse(W, flen, start_pos) ==
  LET h == ReadImage(W, flen, start_pos, AmtaHeaderSize)[1].h
      raw_bytes == ReadImage(W, flen, start_pos, h.size)
      remaining_len == Max({0, h.size - (AmtaFixedSize + h.data)})
  IN ParsedAmta(IF raw_bytes # <<>> /\ raw_bytes[1].n >= h.nameEnd THEN h.name ELSE Garbled,
                raw_bytes, h.unk, h.data, remaining_len)

----------------------------------------------------------------------------
(* The container (Bars).  unknown is the length of the trailer blob.       *)

get_preheader_size(b, custom_count) ==
  BarsFixedHeader + HashEntrySize * custom_count + PairEntrySize * custom_count + b.unknown

(* get_header_size without the alignment of the header end *)
get_header_size_Unaligned(b, custom_count) ==
  get_preheader_size(b, custom_count)
    + SumSeq([i \in DOMAIN b.metas |-> Amta_get_size(b.metas[i])])

get_header_size(b, custom_count) ==
  pad_till(get_preheader_size(b, custom_count)
             + SumSeq([i \in DOMAIN b.metas |-> Amta_get_size(b.metas[i])]),
           Align)

Bars_get_size(b) ==
  LET header_crc_metas_part == get_header_size(b, b.meta_count)
      unique_assets == {i \in 1..b.meta_count :
                          \A j \in 1..(i - 1) : b.asset_offsets[j] # b.asset_offsets[i]}
      last_idx == Max(unique_assets)
      assets_part ==
        IF b.meta_count > 0
        THEN SumSeq([i \in 1..b.meta_count |->
                       IF i \notin unique_assets THEN 0
                       ELSE IF i # last_idx THEN pad_till(Bwav_get_size(b.assets[i]), Align)
                       ELSE Bwav_get_size(b.assets[i])])
        ELSE 0
  IN header_crc_metas_part + assets_part

RECURSIVE MetaOffsetsUpTo(_, _)
MetaOffsetsUpTo(b, n) ==
  IF n = 0 THEN <<>>
  ELSE IF n = 1 THEN <<get_preheader_size(b, b.meta_count)>>
  ELSE LET before == MetaOffsetsUpTo(b, n - 1)
       IN Append(before, before[n - 1] + Amta_get_size(b.metas[n]))

RECURSIVE AssetOffsetsUpTo(_, _)
AssetOffsetsUpTo(b, n) ==
  IF n = 0 THEN <<>>
  ELSE IF n = 1 THEN <<get_header_size(b, b.meta_count)>>
  ELSE LET before == AssetOffsetsUpTo(b, n - 1)
       IN Append(before, before[n - 1] + pad_till(Bwav_get_size(b.assets[n - 1]), Align))

calculate_offsets(b) ==
  [b EXCEPT !.meta_offsets = MetaOffsetsUpTo(b, Len(b.metas)),
            !.asset_offsets = AssetOffsetsUpTo(b, Len(b.assets))]

SetSize(b) == [b EXCEPT !.size = Bars_get_size(b)]

(* get_size that stores the size it computed in the container *)
Bars_after_get_size_StoresSize(b) == SetSize(b)

(* the container after Bars.get_size: the method assigns to locals only *)
Bars_after_get_size(b) == b

(* Bars.write: the container afterwards and the file image written *)
RECURSIVE MetaWrites(_, _)
MetaWrites(b, i) ==
  IF i > Len(b.meta_offsets) THEN <<>>
  ELSE Amta_write(b.metas[i], b.meta_offsets[i]) \o MetaWrites(b, i + 1)

RECURSIVE AssetWrites(_, _)
AssetWrites(b, i) ==
  IF i > Len(b.asset_offsets) THEN <<>>
  ELSE Bwav_write(b.assets[i], b.asset_offsets[i]) \o AssetWrites(b, i + 1)

Bars_write(b0) ==
  LET count == Min({Len(b0.crc_hashes), Len(b0.meta_offsets), Len(b0.asset_offsets),
                    Len(b0.metas), Len(b0.assets), b0.meta_count})
      b1 == [b0 EXCEPT !.meta_count = count,
                       !.crc_hashes = Take(@, count),
                       !.meta_offsets = Take(@, count),
                       !.asset_offsets = Take(@, count),
                       !.metas = Take(@, count),
                       !.assets = Take(@, count)]
      b == SetSize(calculate_offsets(b1))
      W == MetaWrites(b, 1) \o AssetWrites(b, 1)
      pre == get_preheader_size(b, b.meta_count)
      (* the offsets are written & 0xFFFFFFFF: they are never negative and *)
      (* stay far below 2^32, so the mask leaves them as they are          *)
  IN [b |-> b,
      img |-> [size |-> b.size, count |-> b.meta_count, hashes |-> b.crc_hashes,
               pairs |-> [i \in 1..b.meta_count |->
                            [m |-> b.meta_offsets[i], a |-> b.asset_offsets[i]]],
               W |-> W,
               flen |-> IF ImageEnd(W) > pre THEN ImageEnd(W) ELSE pre]]

(* Bars.__init__ on a file image; oid0 numbers the objects it creates *)
FirstAt(offsets, i) == Min({j \in DOMAIN offsets : offsets[j] = offsets[i]})

AssetBlob(img, offsets, i) ==
  LET asset_offset == offsets[i]
      higher_offsets == {offsets[j] : j \in DOMAIN offsets} \ (0..asset_offset)
      limit == IF higher_offsets # {} THEN Min(higher_offsets) ELSE img.size
      read_size == IF limit - asset_offset > 0 THEN limit - asset_offset ELSE 0
  IN ReadImage(img.W, img.flen, asset_offset, read_size)

ParseRaises(img) ==
  \/ \E i \in DOMAIN img.pairs : AmtaRaises(img.W, img.flen, img.pairs[i].m)
  \/ \E i \in DOMAIN img.pairs :
       LoadRaises(AssetBlob(img, [k \in DOMAIN img.pairs |-> img.pairs[k].a], i))

(* ClampHashes that keeps every hash read *)
ClampHashes_Unclamped(crc_hashes, meta_count) == crc_hashes

ClampHashes(crc_hashes, meta_count) == Take(crc_hashes, meta_count)

Bars_parse(img, oid0) ==
  LET read == Len(img.pairs)
      meta_count == IF img.count < read THEN img.count ELSE read
      meta_offsets == [i \in 1..read |-> img.pairs[i].m]
      asset_offsets == [i \in 1..read |-> img.pairs[i].a]
      tell == BarsFixedHeader + HashEntrySize * img.count + PairEntrySize * read
      gap == IF read > 0 /\ meta_offsets[1] > tell THEN meta_offsets[1] - tell ELSE 0
      left == IF img.flen > tell THEN img.flen - tell ELSE 0
  IN [meta_count |-> meta_count,
      size |-> img.size,
      crc_hashes |-> ClampHashes(img.hashes, meta_count),
      meta_offsets |-> meta_offsets,
      asset_offsets |-> asset_offsets,
      unknown |-> IF gap < left THEN gap ELSE left,
      metas |-> [i \in 1..read |-> Amta_parse(img.W, img.flen, meta_offsets[i])],
      assets |-> [i \in 1..read |->
                    load_asset_from_bytes(
                      AssetBlob(img, asset_offsets, FirstAt(asset_offsets, i)),
                      oid0 + FirstAt(asset_offsets, i))]]

----------------------------------------------------------------------------
(* Replace.  Every operation gives the value returned (res), the          *)
(* container afterwards (b), the entry it worked on (idx, 0: none), the    *)
(* asset object it built (new), for add_or_replace_bwav the value the      *)
(* delegated replace_bwav returned (inner), whether the call raised, for   *)
(* write the number of bytes emitted, for get_size the values returned.    *)

Outcome(res, b, idx, new) ==
  [res |-> res, b |-> b, idx |-> idx, new |-> new, inner |-> FALSE, raised |-> FALSE,
   emitted |-> 0, sizes |-> <<>>]

(* the call raised: nothing is returned, the container is as it was *)
Raised(b, idx, new) == [Outcome(FALSE, b, idx, new) EXCEPT !.raised = TRUE]

AddFrom(offsets, from, delta) ==
  [i \in DOMAIN offsets |-> IF i >= from THEN offsets[i] + delta ELSE offsets[i]]

(* ShiftAndSwap with the offsets of a shared asset moved before the resize  *)
(* permission is looked at                                                 *)
ShiftAndSwap_ShiftFirst(b, idx, new, resize_if_needed, from_lowest) ==
  LET old == b.assets[idx]
      old_offset == b.asset_offsets[idx]
      same_offset_indexes == {i \in DOMAIN b.asset_offsets :
                                b.asset_offsets[i] = old_offset /\ i # idx}
      idx_from == IF from_lowest THEN Min(same_offset_indexes \cup {idx})
                  ELSE IF Min(same_offset_indexes) < idx THEN idx
                  ELSE Min(same_offset_indexes)
      moved == IF same_offset_indexes # {}
               THEN AddFrom(b.asset_offsets, idx_from, Bwav_get_size(old))
               ELSE b.asset_offsets
      size_diff == pad_till(Bwav_get_size(new), Align) - pad_till(Bwav_get_size(old), Align)
      resized == IF size_diff # 0 THEN AddFrom(moved, idx + 1, size_diff) ELSE moved
  IN IF same_offset_indexes # {} /\ ~resize_if_needed
     THEN Outcome(FALSE, [b EXCEPT !.asset_offsets = moved], idx, new)
     ELSE IF size_diff # 0 /\ ~resize_if_needed THEN Outcome(FALSE, b, idx, new)
     ELSE Outcome(TRUE,
                  SetSize([b EXCEPT !.asset_offsets = resized, !.assets[idx] = new]),
                  idx, new)

(* the common tail of the three replace operations: move the offsets of a  *)
(* shared asset, move the later offsets by the size difference, swap.      *)
(* from_lowest: replace_asset_at_index_from_memory starts at the lowest    *)
(* index sharing the offset                                                *)
ShiftAndSwap(b, idx, new, resize_if_needed, from_lowest) ==
  LET old == b.assets[idx]
      old_offset == b.asset_offsets[idx]
      same_offset_indexes == {i \in DOMAIN b.asset_offsets :
                                b.asset_offsets[i] = old_offset /\ i # idx}
      idx_from == IF from_lowest THEN Min(same_offset_indexes \cup {idx})
                  ELSE IF Min(same_offset_indexes) < idx THEN idx
                  ELSE Min(same_offset_indexes)
      moved == IF same_offset_indexes # {}
               THEN AddFrom(b.asset_offsets, idx_from, Bwav_get_size(old))
               ELSE b.asset_offsets
      size_diff == pad_till(Bwav_get_size(new), Align) - pad_till(Bwav_get_size(old), Align)
      resized == IF size_diff # 0 THEN AddFrom(moved, idx + 1, size_diff) ELSE moved
  IN IF same_offset_indexes # {} /\ ~resize_if_needed THEN Outcome(FALSE, b, idx, new)
     ELSE IF size_diff # 0 /\ ~resize_if_needed THEN Outcome(FALSE, b, idx, new)
     ELSE Outcome(TRUE,
                  SetSize([b EXCEPT !.asset_offsets = resized, !.assets[idx] = new]),
                  idx, new)

(* PrefetchRules without the refusal of a full BWAV when resizing is off *)
PrefetchRules_NoResizeGate(b, idx, bwav_new, resize_if_needed, from_lowest) ==
  LET bwav_old == b.assets[idx]
      cv == convert_to_prefetch(bwav_new)
  IN IF bwav_old.parsed /\ bwav_new.parsed
     THEN IF bwav_old.prefetch
          THEN IF cv.raised THEN Raised(b, idx, bwav_new)
               ELSE IF ~cv.res THEN Outcome(FALSE, b, idx, cv.a)
               ELSE ShiftAndSwap(b, idx, cv.a, resize_if_needed, from_lowest)
          ELSE IF bwav_new.prefetch THEN Outcome(FALSE, b, idx, bwav_new)
          ELSE ShiftAndSwap(b, idx, bwav_new, resize_if_needed, from_lowest)
     ELSE ShiftAndSwap(b, idx, bwav_new, resize_if_needed, from_lowest)

(* the prefetch rules of replace_bwav and add_or_replace_bwav_from_memory *)
PrefetchRules(b, idx, bwav_new, resize_if_needed, from_lowest) ==
  LET bwav_old == b.assets[idx]
      cv == convert_to_prefetch(bwav_new)
  IN IF bwav_old.parsed /\ bwav_new.parsed
     THEN IF bwav_old.prefetch
          THEN IF cv.raised THEN Raised(b, idx, bwav_new)
               ELSE IF ~cv.res THEN Outcome(FALSE, b, idx, cv.a)
               ELSE ShiftAndSwap(b, idx, cv.a, resize_if_needed, from_lowest)
          ELSE IF bwav_new.prefetch THEN Outcome(FALSE, b, idx, bwav_new)
          ELSE IF ~resize_if_needed THEN Outcome(FALSE, b, idx, bwav_new)
          ELSE ShiftAndSwap(b, idx, bwav_new, resize_if_needed, from_lowest)
     ELSE ShiftAndSwap(b, idx, bwav_new, resize_if_needed, from_lowest)

replace_bwav(b, name, bwav_new, resize_if_needed) ==
  LET found == {i \in DOMAIN b.metas : b.metas[i].name = name}
      idx == Min(found)
      bwav_old == b.assets[idx]
  IN IF found = {} THEN Outcome(FALSE, b, 0, bwav_new)
     ELSE IF /\ bwav_old.parsed /\ bwav_new.parsed /\ ~resize_if_needed
             /\ \/ Len(bwav_new.ch) # Len(bwav_old.ch)
                \/ bwav_new.ch[1].codec # bwav_old.ch[1].codec
          THEN Outcome(FALSE, b, idx, bwav_new)
     ELSE PrefetchRules(b, idx, bwav_new, resize_if_needed, FALSE)

add_or_replace_bwav_from_memory(b, bwav_object, name, resize_if_needed) ==
  LET name_hash == calculate_crc32_hash(name)
      found == {i \in DOMAIN b.crc_hashes : b.crc_hashes[i] = name_hash}
      bwav_new == CloneAsset(bwav_object, bwav_object.oid)
  IN IF found = {} THEN Outcome(FALSE, b, 0, bwav_object)
     ELSE PrefetchRules(b, Min(found), bwav_new, resize_if_needed, FALSE)

replace_asset_at_index_from_memory(b, asset_object, idx, resize_if_needed) ==
  IF idx < 1 \/ idx > b.meta_count THEN Outcome(FALSE, b, 0, asset_object)
  ELSE ShiftAndSwap(b, idx, CloneAsset(asset_object, asset_object.oid),
                    resize_if_needed, TRUE)

----------------------------------------------------------------------------
(* Insert *)

(* bisect_left that always answers the end of the range *)
bisect_left_AtEnd(a, x, lo, hi) == hi

RECURSIVE bisect_left(_, _, _, _)
bisect_left(a, x, lo, hi) ==
  IF lo >= hi THEN lo
  ELSE LET mid == (lo + hi) \div 2
       IN IF a[mid + 1] < x THEN bisect_left(a, x, mid + 1, hi)
          ELSE bisect_left(a, x, lo, mid)

(* add_or_replace_bwav that inserts without looking for the hash *)
add_or_replace_bwav_AlwaysInserts(b, name, new_bwav, resize_if_needed) ==
  LET name_hash == calculate_crc32_hash(name)
      insertion_index == bisect_left(b.crc_hashes, name_hash, 0, Len(b.crc_hashes)) + 1
      grown == [b EXCEPT !.metas = InsertAt(@, insertion_index, create_new_amta(name)),
                         !.assets = InsertAt(@, insertion_index, new_bwav),
                         !.crc_hashes = InsertAt(@, insertion_index, name_hash),
                         !.meta_count = @ + 1]
  IN IF PeakVolumeRaises(new_bwav) THEN Raised(b, 0, new_bwav)
     ELSE Outcome(TRUE, SetSize(calculate_offsets(grown)), insertion_index, new_bwav)

add_or_replace_bwav(b, name, new_bwav, resize_if_needed) ==
  LET name_hash == calculate_crc32_hash(name)
      replaced == replace_bwav(b, name, new_bwav, resize_if_needed)
      insertion_index == bisect_left(b.crc_hashes, name_hash, 0, Len(b.crc_hashes)) + 1
      grown == [b EXCEPT !.metas = InsertAt(@, insertion_index, create_new_amta(name)),
                         !.assets = InsertAt(@, insertion_index, new_bwav),
                         !.crc_hashes = InsertAt(@, insertion_index, name_hash),
                         !.meta_count = @ + 1]
  IN IF \E i \in DOMAIN b.crc_hashes : b.crc_hashes[i] = name_hash
     THEN [Outcome(FALSE, replaced.b, replaced.idx, replaced.new)
             EXCEPT !.inner = replaced.res, !.raised = replaced.raised]
     ELSE IF PeakVolumeRaises(new_bwav) THEN Raised(b, 0, new_bwav)
     ELSE Outcome(TRUE, SetSize(calculate_offsets(grown)), insertion_index, new_bwav)

----------------------------------------------------------------------------
(* The files the operations are given.  Each asset is what the loader      *)
(* makes of the file's bytes.                                              *)

OneChannel(oid, prefetch, codec, nsamp, tag, len) ==
  Bwav(oid, prefetch, <<Channel(codec, nsamp, 128, Bytes(tag, len))>>)

AssetFile(k, oid) ==
  CASE k = 1 -> RawAsset(oid, Bytes(11, 100))
    [] k = 2 -> OneChannel(oid, FALSE, 0, 4128, 12, 8256)
    [] k = 3 -> OneChannel(oid, FALSE, 0, 32, 13, 64)
    [] k = 4 -> OneChannel(oid, TRUE, 0, 4096, 14, 8192)
    [] k = 5 -> OneChannel(oid, FALSE, 1, 14448, 15, 8256)
    [] k = 7 -> OneChannel(oid, FALSE, 3, 4128, 18, 8256)
    [] OTHER -> Bwav(oid, FALSE, <<Channel(0, 4128, 192, Bytes(16, 8256)),
                                   Channel(0, 4128, 8448, Bytes(17, 8256))>>)

AssetFiles == 1..7
Names == {1, 2, 4}

LoadFile(k, oid) == CloneAsset(AssetFile(k, oid), oid)

(* The container files opened at the start *)
FileAmta(name) == AmtaBytes(name, 76, 76, 44, 0, 76)

Image(size, count, hashes, pairs, W) ==
  [size |-> size, count |-> count, hashes |-> hashes, pairs |-> pairs, W |-> W,
   flen |-> IF ImageEnd(W) > BarsFixedHeader + HashEntrySize * count + PairEntrySize * Len(pairs)
            THEN ImageEnd(W)
            ELSE BarsFixedHeader + HashEntrySize * count + PairEntrySize * Len(pairs)]

Pair(m, a) == [m |-> m, a |-> a]

(* three entries, each with its own asset, in the order of the table *)
PlainFile ==
  Image(612, 3, <<10, 20, 30>>, <<Pair(52, 320), Pair(128, 448), Pair(204, 512)>>,
        PlaceSeq(FileAmta(1), 52) \o PlaceSeq(FileAmta(2), 128) \o PlaceSeq(FileAmta(3), 204)
        \o PlaceSeq(Bytes(1, 128), 320) \o PlaceSeq(Bytes(2, 64), 448)
        \o PlaceSeq(Bytes(3, 100), 512))

(* entries 1 and 3 reference one asset *)
SharedFile ==
  Image(548, 3, <<10, 20, 30>>, <<Pair(52, 320), Pair(128, 448), Pair(204, 320)>>,
        PlaceSeq(FileAmta(1), 52) \o PlaceSeq(FileAmta(2), 128) \o PlaceSeq(FileAmta(3), 204)
        \o PlaceSeq(Bytes(1, 128), 320) \o PlaceSeq(Bytes(2, 100), 448))

(* a hand-edited file: the asset of entry 1 lies after the asset of entry  *)
(* 2, the hash array is not ascending                                      *)
ReorderedFile ==
  Image(448, 2, <<20, 10>>, <<Pair(40, 320), Pair(116, 192)>>,
        PlaceSeq(FileAmta(2), 40) \o PlaceSeq(FileAmta(1), 116)
        \o PlaceSeq(Bytes(1, 128), 192) \o PlaceSeq(Bytes(2, 128), 320))

(* the file ends after the hash array: no offset pair can be read *)
TruncatedFile == Image(0, 2, <<10, 20>>, <<>>, <<>>)

(* one entry whose metadata record declares size 0 *)
EmptyRecordFile ==
  Image(192, 1, <<10>>, <<Pair(28, 128)>>,
        PlaceSeq(AmtaBytes(1, 0, 76, 44, 0, 76), 28) \o PlaceSeq(Bytes(1, 64), 128))

(* a prefetch BWAV and a full BWAV *)
BwavFile ==
  Image(16896, 2, <<10, 20>>, <<Pair(40, 192), Pair(116, 8512)>>,
        PlaceSeq(FileAmta(1), 40) \o PlaceSeq(FileAmta(2), 116)
        \o Bwav_write(OneChannel(0, TRUE, 0, 4096, 4, 8192), 192)
        \o Bwav_write(OneChannel(0, FALSE, 0, 4128, 5, 8256), 8512))

InputFiles == {PlainFile, SharedFile, ReorderedFile, TruncatedFile, BwavFile, EmptyRecordFile}

----------------------------------------------------------------------------
(* State: the container, the container before the last operation, the     *)
(* last operation with its arguments and result (for parse, idx is the     *)
(* entry count the file declares), the number of operations                *)

NoAsset == RawAsset(0, <<>>)

Op(op, name, idx, given, resize, out) ==
  [op |-> op, name |-> name, idx |-> idx, given |-> given, resize |-> resize,
   res |-> out.res, inner |-> out.inner, at |-> out.idx, new |-> out.new,
   raised |-> out.raised, emitted |-> out.emitted, sizes |-> out.sizes]

(* the variables of the specifications of single functions, while the     *)
(* container operations run, and the container variables while those run  *)
NoCall == <<>>
NoCalls == pad = NoCall /\ conv = NoCall /\ dec = NoCall
NoContainer == bars = NoCall /\ prev = NoCall /\ last = NoCall /\ steps = 0

Init ==
  \E f \in InputFiles :
    /\ ~ParseRaises(f)
    /\ bars = Bars_parse(f, 0)
    /\ prev = bars
    /\ last = Op("parse", 0, f.count, 0, FALSE, Outcome(TRUE, bars, 0, NoAsset))
    /\ steps = 0
    /\ NoCalls

Step(op, name, idx, given, resize, out) ==
  /\ steps < MaxOps
  /\ steps' = steps + 1
  /\ prev' = bars
  /\ bars' = out.b
  /\ last' = Op(op, name, idx, given, resize, out)
  /\ UNCHANGED <<pad, conv, dec>>

NewOid == 10 * (steps + 1)

ReplaceBwav ==
  \E name \in Names, k \in AssetFiles, resize \in BOOLEAN :
    Step("replace_bwav", name, 0, k, resize,
         replace_bwav(bars, name, LoadFile(k, NewOid), resize))

AddOrReplaceBwav ==
  \E name \in Names, k \in AssetFiles, resize \in BOOLEAN :
    Step("add_or_replace_bwav", name, 0, k, resize,
         add_or_replace_bwav(bars, name, LoadFile(k, NewOid), resize))

AddOrReplaceBwavFromMemory ==
  \E name \in Names, k \in AssetFiles, resize \in BOOLEAN :
    Step("add_or_replace_bwav_from_memory", name, 0, k, resize,
         add_or_replace_bwav_from_memory(bars, LoadFile(k, NewOid), name, resize))

ReplaceAssetAtIndexFromMemory ==
  \E idx \in 1..(bars.meta_count + 1), k \in AssetFiles, resize \in BOOLEAN :
    Step("replace_asset_at_index_from_memory", 0, idx, k, resize,
         replace_asset_at_index_from_memory(bars, LoadFile(k, NewOid), idx, resize))

Write ==
  LET written == Bars_write(bars)
  IN Step("write", 0, 0, 0, FALSE,
          [Outcome(TRUE, written.b, 0, NoAsset) EXCEPT !.emitted = written.img.flen])

(* two calls of get_size in a row *)
GetSize ==
  LET first == Bars_get_size(bars)
      b1 == Bars_after_get_size(bars)
      second == Bars_get_size(b1)
      b2 == Bars_after_get_size(b1)
  IN Step("get_size", 0, 0, 0, FALSE,
          [Outcome(TRUE, b2, 0, NoAsset) EXCEPT !.sizes = <<first, second>>])

(* write the container and open the file written; a file that cannot be   *)
(* parsed raises and leaves no container                                   *)
Reopen ==
  LET img == Bars_write(bars).img
  IN /\ ~ParseRaises(img)
     /\ Step("reopen", 0, 0, 0, FALSE, Outcome(TRUE, Bars_parse(img, NewOid), 0, NoAsset))

Next ==
  \/ ReplaceBwav
  \/ AddOrReplaceBwav
  \/ AddOrReplaceBwavFromMemory
  \/ ReplaceAssetAtIndexFromMemory
  \/ Write
  \/ GetSize
  \/ Reopen

Spec == Init /\ [][Next]_vars

----------------------------------------------------------------------------
(* pad_count and pad_till on their own: a position and a multiplier, then  *)
(* the two values returned                                                 *)

Multipliers == (1..MaxAlign) \cup {Align}

PadInit ==
  /\ \E pos \in 0..MaxPos, multiplier \in Multipliers :
       pad = [pos |-> pos, multiplier |-> multiplier, called |-> FALSE, count |-> 0, till |-> 0]
  /\ conv = NoCall /\ dec = NoCall
  /\ NoContainer

Pad ==
  /\ ~pad.called
  /\ pad' = [pad EXCEPT !.called = TRUE,
                        !.count = pad_count(pad.pos, pad.multiplier),
                        !.till = pad_till(pad.pos, pad.multiplier)]
  /\ UNCHANGED <<bars, prev, last, steps, conv, dec>>

PadNext == Pad

PadSpec == PadInit /\ [][PadNext]_vars

----------------------------------------------------------------------------
(* Vocabulary of the properties *)

IsReplace ==
  last.op \in {"replace_bwav", "add_or_replace_bwav_from_memory",
               "replace_asset_at_index_from_memory"}

IsInsert == last.op = "add_or_replace_bwav" /\ last.res

Entries(b) == 1..b.meta_count

PaddedSize(a) == pad_till(Bwav_get_size(a), Align)

SharedBefore ==
  \E j \in Entries(prev) : j # last.at /\ prev.asset_offsets[j] = prev.asset_offsets[last.at]

Ascending(s) == \A i, j \in DOMAIN s : i < j => s[i] < s[j]

(* the bytes of a metadata record as Amta.write emits them, up to its size *)
RecordBytes(m) ==
  IF m.raw THEN m.bytes
  ELSE Norm(AmtaBytes(m.name, Amta_get_size(m), NewAmtaLen(m), m.unk, m.data, NewAmtaLen(m))
            \o Zeros(Amta_get_size(m) - NewAmtaLen(m)))

----------------------------------------------------------------------------
(* C1: writing a container and parsing the bytes written gives the same    *)
(* entry count and hash array and, entry by entry, the same metadata       *)
(* record (bytes and recovered name) and the same asset content.           *)
C1_RoundTrip ==
  last.op = "reopen" =>
    /\ last.res
    /\ bars.meta_count = prev.meta_count
    /\ bars.crc_hashes = prev.crc_hashes
    /\ \A i \in Entries(prev) :
         /\ bars.metas[i].name = prev.metas[i].name
         /\ bars.metas[i].bytes = RecordBytes(prev.metas[i])
         /\ Content(bars.assets[i]) = Content(prev.assets[i])


(* C2: a replace operation that returns failure leaves the container as    *)
(* it was: hashes, both offset arrays, metadata, assets, count and size.   *)
C2_FailedReplaceChangesNothing ==
  (IsReplace /\ ~last.res) => bars = prev

C2_Witness ==
  /\ IsReplace
  /\ ~last.res
  /\ last.at > 0
  /\ SharedBefore
  /\ bars = prev

(* C3: after a successful replace with resizing of an entry whose asset    *)
(* offset was shared, two entries have the same asset offset exactly when  *)
(* they reference the same asset.                                          *)
C3_AliasOffsetsConsistent ==
  (IsReplace /\ last.res /\ last.resize /\ SharedBefore) =>
    \A j, k \in Entries(bars) :
      (bars.asset_offsets[j] = bars.asset_offsets[k])
        <=> (bars.assets[j].oid = bars.assets[k].oid)

(* C4: inserting a name whose hash is absent into an ascending hash array  *)
(* puts hash, metadata and asset at the index p = 1 + number of smaller    *)
(* hashes, keeps the array ascending and keeps every earlier entry's       *)
(* triple, in the same order.                                              *)
C4_InsertSorted ==
  (IsInsert /\ Ascending(prev.crc_hashes)) =>
    LET h == calculate_crc32_hash(last.name)
        p == 1 + Cardinality({i \in Entries(prev) : prev.crc_hashes[i] < h})
        to(i) == IF i < p THEN i ELSE i + 1
    IN /\ last.at = p
       /\ bars.meta_count = prev.meta_count + 1
       /\ bars.crc_hashes[p] = h
       /\ bars.metas[p] = create_new_amta(last.name)
       /\ bars.assets[p] = last.new
       /\ Ascending(bars.crc_hashes)
       /\ \A i \in Entries(prev) :
            /\ bars.crc_hashes[to(i)] = prev.crc_hashes[i]
            /\ bars.metas[to(i)] = prev.metas[i]
            /\ bars.assets[to(i)] = prev.assets[i]

C4_Witness ==
  /\ IsInsert
  /\ Ascending(prev.crc_hashes)
  /\ 1 < last.at
  /\ last.at <= prev.meta_count

(* C5: the hash array, both offset arrays, the metadata list and the asset *)
(* list always have exactly meta_count elements, also after parsing a file *)
(* whose offset table is shorter than the count it declares.               *)
C5_EqualLengths ==
  /\ Len(bars.crc_hashes) = bars.meta_count
  /\ Len(bars.meta_offsets) = bars.meta_count
  /\ Len(bars.asset_offsets) = bars.meta_count
  /\ Len(bars.metas) = bars.meta_count
  /\ Len(bars.assets) = bars.meta_count

C5_Witness ==
  /\ last.op = "parse"
  /\ last.idx > bars.meta_count
  /\ Len(bars.crc_hashes) = bars.meta_count

(* C6: the case of the claim: no resizing, the old asset a full            *)
(* (non-prefetch) BWAV that no other entry shares, the replacement a full  *)
(* BWAV with the same channel count, codec and padded size.                *)
C6_Case ==
  /\ IsReplace
  /\ ~last.resize
  /\ last.at > 0
  /\ ~SharedBefore
  /\ prev.assets[last.at].parsed
  /\ ~prev.assets[last.at].prefetch
  /\ last.new.parsed
  /\ ~last.new.prefetch
  /\ Len(last.new.ch) = Len(prev.assets[last.at].ch)
  /\ last.new.ch[1].codec = prev.assets[last.at].ch[1].codec
  /\ PaddedSize(last.new) = PaddedSize(prev.assets[last.at])

C6_Swapped ==
  /\ last.res
  /\ \A j \in Entries(prev) : j # last.at => bars.asset_offsets[j] = prev.asset_offsets[j]
  /\ bars.assets[last.at] = last.new

(* C6 as claimed: in that case the replace succeeds, every other entry's   *)
(* asset offset is unchanged and the entry holds the replacement.          *)
C6_SameSizeReplaceSucceeds == C6_Case => C6_Swapped

(* C6 as amended: in that case only the replace by index succeeds (other   *)
(* offsets unchanged, the entry holds the replacement); the replace by     *)
(* name refuses and leaves the container unchanged.                        *)
C6_SameSizeReplaceByIndexOnly ==
  C6_Case =>
    IF last.op = "replace_asset_at_index_from_memory" THEN C6_Swapped
    ELSE ~last.res /\ bars = prev

C6_Witness == C6_Case /\ last.op = "replace_bwav" /\ ~last.res

(* C7 vocabulary: the 64-aligned end of the header (fixed part, one hash    *)
(* and one offset pair per entry, trailer, metadata records), and a layout *)
(* where the assets follow the header back to back, each padded to 64      *)
HeaderEnd(b) ==
  pad_till(BarsFixedHeader + (HashEntrySize + PairEntrySize) * b.meta_count + b.unknown
             + SumSeq([i \in DOMAIN b.metas |-> Amta_get_size(b.metas[i])]),
           Align)

PackedLayout(b) ==
  \A j \in Entries(b) :
    b.asset_offsets[j] = IF j = 1 THEN HeaderEnd(b)
                         ELSE b.asset_offsets[j - 1] + PaddedSize(b.assets[j - 1])

(* C7 as claimed: after an insert at p, the asset offset of every earlier   *)
(* entry now after p is larger than before by size(new metadata) +         *)
(* padTo(size(new asset), 64).                                             *)
C7_InsertShiftsByMetaAndAsset ==
  IsInsert =>
    \A i \in Entries(prev) :
      i >= last.at =>
        bars.asset_offsets[i + 1]
          = prev.asset_offsets[i] + Amta_get_size(bars.metas[last.at]) + PaddedSize(last.new)

(* C7 as amended: after an insert at p into a container whose assets lie   *)
(* back to back after the header, the asset offset of every earlier entry  *)
(* now after p is larger than before by padTo(size(new asset), 64) plus    *)
(* the growth of the 64-aligned header end.                                *)
C7_InsertShiftsByLayoutGrowth ==
  (IsInsert /\ PackedLayout(prev)) =>
    \A i \in Entries(prev) :
      i >= last.at =>
        bars.asset_offsets[i + 1]
          = prev.asset_offsets[i] + (HeaderEnd(bars) - HeaderEnd(prev)) + PaddedSize(last.new)

C7_Witness ==
  /\ IsInsert
  /\ PackedLayout(prev)
  /\ last.at <= prev.meta_count
  /\ HeaderEnd(bars) - HeaderEnd(prev) # Amta_get_size(bars.metas[last.at])

(* C8: after a successful replace with resizing of entry i whose asset     *)
(* offset no other entry shares, with d the difference of the padded       *)
(* sizes: every entry whose asset offset was greater than entry i's has    *)
(* its asset offset increased by d, every other asset offset is unchanged, *)
(* entry i holds the replacement, and the other assets, the metadata and   *)
(* the hash array are unchanged.                                           *)
C8_ReplaceShiftsHigherOffsets ==
  (IsReplace /\ last.res /\ last.resize /\ last.at > 0 /\ ~SharedBefore) =>
    LET i == last.at
        d == PaddedSize(last.new) - PaddedSize(prev.assets[i])
    IN /\ \A j \in Entries(prev) :
            bars.asset_offsets[j]
              = prev.asset_offsets[j]
                + (IF prev.asset_offsets[j] > prev.asset_offsets[i] THEN d ELSE 0)
       /\ bars.assets[i] = last.new
       /\ \A j \in Entries(prev) : j # i => bars.assets[j] = prev.assets[j]
       /\ bars.metas = prev.metas
       /\ bars.crc_hashes = prev.crc_hashes
       /\ bars.meta_count = prev.meta_count

(* C9: add_or_replace_bwav, when it returns, tells three outcomes apart:    *)
(* with the hash                                                           *)
(* present, the result is a success when the delegated replace succeeded   *)
(* and a failure when it failed, and the entry count is unchanged; with    *)
(* the hash absent the result is a success and the entry count grows by    *)
(* one.                                                                    *)
C9_ThreeOutcomes ==
  (last.op = "add_or_replace_bwav" /\ ~last.raised) =>
    IF \E i \in DOMAIN prev.crc_hashes :
         prev.crc_hashes[i] = calculate_crc32_hash(last.name)
    THEN /\ last.res = last.inner
         /\ bars.meta_count = prev.meta_count
    ELSE /\ last.res
         /\ bars.meta_count = prev.meta_count + 1

(* C10: a successful replace, by name or by index, of a structured asset   *)
(* by a structured asset keeps the prefetch mark of the entry: prefetch    *)
(* stays prefetch, full stays full.                                        *)
C10_PrefetchStatusKept ==
  (/\ IsReplace
   /\ last.res
   /\ last.at > 0
   /\ prev.assets[last.at].parsed
   /\ bars.assets[last.at].parsed) =>
    bars.assets[last.at].prefetch = prev.assets[last.at].prefetch

----------------------------------------------------------------------------
(* convert_to_prefetch on its own: an asset, then the asset afterwards and *)
(* the value returned                                                      *)

(* channels below, at and above the requirement of their codec; one that   *)
(* declares more samples than it has bytes; Opus streams of 512, 36864 and *)
(* 37376 samples; a codec without table entry                              *)
ChannelChoices ==
  {Channel(0, 32, 0, Bytes(31, 64)), Channel(0, 4095, 0, Bytes(32, 8190)),
   Channel(0, 4096, 0, Bytes(33, 8192)), Channel(0, 4128, 0, Bytes(34, 8256)),
   Channel(0, 4096, 0, Bytes(35, 4000)),
   Channel(1, 112, 0, Bytes(36, 64)), Channel(1, 14336, 0, Bytes(37, 8192)),
   Channel(1, 14448, 0, Bytes(38, 8256)),
   Channel(2, 512, 0, Bytes(20, 600)), Channel(2, 36864, 0, Bytes(21, 9000)),
   Channel(2, 37376, 0, Bytes(22, 9100)),
   Channel(3, 4128, 0, Bytes(18, 8256))}

ChannelLists == UNION {[1..n -> ChannelChoices] : n \in 1..MaxChannels}

(* the channels laid out one after the other from offset 128 *)
RECURSIVE StartAt(_, _)
StartAt(chs, i) ==
  IF i = 1 THEN 128
  ELSE StartAt(chs, i - 1) + pad_till(ByteLen(chs[i - 1].data), Align)

ConvAssets ==
  {RawAsset(0, Bytes(11, 100))}
    \cup {Bwav(0, prefetch, [i \in DOMAIN chs |-> [chs[i] EXCEPT !.start = StartAt(chs, i)]]) :
            prefetch \in BOOLEAN, chs \in ChannelLists}

ConvInit ==
  /\ \E a \in ConvAssets :
       conv = [a |-> a, called |-> FALSE, res |-> FALSE, after |-> a, raised |-> FALSE]
  /\ pad = NoCall /\ dec = NoCall
  /\ NoContainer

ConvertToPrefetch ==
  /\ ~conv.called
  /\ LET cv == convert_to_prefetch(conv.a)
     IN conv' = [conv EXCEPT !.called = TRUE, !.res = cv.res, !.after = cv.a,
                            !.raised = cv.raised]
  /\ UNCHANGED <<bars, prev, last, steps, pad, dec>>

ConvNext == ConvertToPrefetch

ConvSpec == ConvInit /\ [][ConvNext]_vars

(* the bytes convert_to_prefetch looks at for a channel, and whether the    *)
(* channel meets the requirement of its codec                              *)
SampleBytes(c) == IF c.codec = 2 THEN OpusDecoded(c.data, codec_bytes(2) \div 2) ELSE c.data

Qualifies(c) ==
  c.nsamp >= codec_samples(c.codec) \/ ByteLen(SampleBytes(c)) >= codec_bytes(c.codec)

----------------------------------------------------------------------------
(* Bwav.decode_channel on the bytes of one channel.  A channel to decode   *)
(* is its codec, its declared number of samples, its sample bytes (src),   *)
(* its 16 coefficients and two history samples and, for Opus, the PCM      *)
(* bytes the decoder makes of each packet of the stream.                   *)

get_high_nibble(byte) == (byte \div 16) % 16
get_low_nibble(byte) == byte % 16

(* struct.unpack of one little-endian short *)
Short(lo, hi) == IF lo + 256 * hi >= 32768 THEN lo + 256 * hi - 65536 ELSE lo + 256 * hi

RECURSIVE UnpackShorts(_)
UnpackShorts(b) ==
  IF Len(b) < 2 THEN <<>> ELSE <<Short(b[1], b[2])>> \o UnpackShorts(SubSeq(b, 3, Len(b)))

Clamp(sample) ==
  IF sample > 32767 THEN 32767 ELSE IF sample < -32768 THEN -32768 ELSE sample

(* the samples of one frame: k samples left, idx_src counts from 0 *)
RECURSIVE FrameSamples(_, _, _, _, _, _, _, _, _, _)
FrameSamples(src, idx_src, even, k, hist1, hist2, scale, coef1, coef2, out) ==
  IF k = 0
  THEN [raised |-> FALSE, idx_src |-> idx_src, hist1 |-> hist1, hist2 |-> hist2, out |-> out]
  ELSE IF idx_src >= Len(src)
  THEN [raised |-> TRUE, idx_src |-> idx_src, hist1 |-> hist1, hist2 |-> hist2, out |-> out]
  ELSE LET nibble == IF even THEN get_high_nibble(src[idx_src + 1])
                     ELSE get_low_nibble(src[idx_src + 1])
           residual == IF nibble >= 8 THEN nibble - 16 ELSE nibble
           sample == (((scale * residual) * 2048) + 1024 + (coef1 * hist1 + coef2 * hist2))
                       \div 2048
           final_sample == Clamp(sample)
       IN FrameSamples(src, IF even THEN idx_src ELSE idx_src + 1, ~even, k - 1,
                       final_sample, hist1, scale, coef1, coef2, Append(out, final_sample))

(* the loop over the frames; the answer says whether the decode stopped at *)
(* the limit (reduced) or raised (index out of range)                      *)
RECURSIVE Frames(_, _, _, _, _, _, _, _, _)
Frames(ch, frames_left, idx_src, hist1, hist2, remaining, dst, result_byte_limit, sample_limit) ==
  IF frames_left = 0 THEN [raised |-> FALSE, reduced |-> FALSE, dst |-> dst]
  ELSE IF idx_src >= Len(ch.src) THEN [raised |-> TRUE, reduced |-> FALSE, dst |-> <<>>]
  ELSE LET predictor == get_high_nibble(ch.src[idx_src + 1])
           scale == 2 ^ get_low_nibble(ch.src[idx_src + 1])
           samples_to_read == Min({SamplesPerFrame, remaining})
       IN IF predictor * 2 + 1 > Len(ch.coefs) - 1
          THEN [raised |-> TRUE, reduced |-> FALSE, dst |-> <<>>]
          ELSE LET fr == FrameSamples(ch.src, idx_src + 1, TRUE, samples_to_read, hist1, hist2,
                                      scale, ch.coefs[predictor * 2 + 1],
                                      ch.coefs[predictor * 2 + 2], dst)
               IN IF fr.raised THEN [raised |-> TRUE, reduced |-> FALSE, dst |-> <<>>]
                  ELSE IF result_byte_limit > 0 /\ Len(fr.out) > result_byte_limit
                  THEN [raised |-> FALSE, reduced |-> TRUE, dst |-> Take(fr.out, sample_limit)]
                  ELSE Frames(ch, frames_left - 1, fr.idx_src, fr.hist1, fr.hist2,
                              remaining - samples_to_read, fr.out,
                              result_byte_limit, sample_limit)

DecodeAdpcm(ch, sample_limit) ==
  Frames(ch, (ch.num_samples + SamplesPerFrame - 1) \div SamplesPerFrame, 0,
         ch.hist1, ch.hist2, ch.num_samples, <<>>, sample_limit * 2, sample_limit)

DecodePcm16(ch, sample_limit) ==
  LET result_byte_limit == sample_limit * 2
      reduced == result_byte_limit > 0 /\ Len(ch.src) > result_byte_limit
      src == IF reduced THEN Take(ch.src, result_byte_limit) ELSE ch.src
  IN IF Len(src) % 2 # 0 THEN [raised |-> TRUE, reduced |-> FALSE, dst |-> <<>>]
     ELSE [raised |-> FALSE, reduced |-> reduced, dst |-> UnpackShorts(src)]

RECURSIVE OpusPackets(_, _, _, _)
OpusPackets(packets, i, total_pcm, result_byte_limit) ==
  IF i > Len(packets) THEN [reduced |-> FALSE, total_pcm |-> total_pcm]
  ELSE IF result_byte_limit > 0 /\ Len(total_pcm \o packets[i]) > result_byte_limit
  THEN [reduced |-> TRUE, total_pcm |-> Take(total_pcm \o packets[i], result_byte_limit)]
  ELSE OpusPackets(packets, i + 1, total_pcm \o packets[i], result_byte_limit)

DecodeOpus(ch, sample_limit) ==
  LET got == OpusPackets(ch.packets, 1, <<>>, sample_limit * 2)
  IN [raised |-> FALSE, reduced |-> got.reduced, dst |-> UnpackShorts(got.total_pcm)]

(* a cache that also keeps the decodes stopped at the limit *)
CacheAfter_KeepsReduced(cached, cache, reduced, dst) == [cached |-> TRUE, cache |-> dst]

(* the cache entry of the channel after a decode *)
CacheAfter(cached, cache, reduced, dst) ==
  IF ~reduced THEN [cached |-> TRUE, cache |-> dst] ELSE [cached |-> cached, cache |-> cache]

(* decode_channel: cached tells None from a list, an empty list is false;  *)
(* reduced tells that this call stopped at the limit                       *)
decode_channel(ch, cached, cache, sample_limit) ==
  IF cached /\ cache # <<>>
  THEN [raised |-> FALSE, reduced |-> FALSE, cached |-> cached, cache |-> cache,
        dst |-> IF sample_limit > 0 THEN Take(cache, sample_limit) ELSE cache]
  ELSE LET got == CASE ch.codec = 0 -> DecodePcm16(ch, sample_limit)
                    [] ch.codec = 1 -> DecodeAdpcm(ch, sample_limit)
                    [] ch.codec = 2 -> DecodeOpus(ch, sample_limit)
                    [] OTHER -> [raised |-> FALSE, reduced |-> FALSE, dst |-> <<>>]
           kept == CacheAfter(cached, cache, got.reduced, got.dst)
       IN IF got.raised
          THEN [raised |-> TRUE, reduced |-> FALSE, cached |-> cached, cache |-> cache,
                dst |-> <<>>]
          ELSE [raised |-> FALSE, reduced |-> got.reduced, cached |-> kept.cached,
                cache |-> kept.cache, dst |-> got.dst]

(* The channels decoded; dec is the channel, its cache entry, the number   *)
(* of calls, the last call (limit, raised, result) and whether some call   *)
(* stopped at its limit (partial)                                          *)
Coefs == <<2048, 0, 1024, 1024, 4096, -2048, 0, 0, 2048, -1024, 3072, -1024, 1024, 0, 512, 512>>
FrameData == <<18, 52, 86, 120, 154, 188, 222>>

DecChannel(codec, num_samples, src, hist1, hist2, packets) ==
  [codec |-> codec, num_samples |-> num_samples, src |-> src, coefs |-> Coefs,
   hist1 |-> hist1, hist2 |-> hist2, packets |-> packets]

(* PCM16 of three samples, of none and of an odd number of bytes; ADPCM of *)
(* one frame, of a frame and a sample, of two frames, one cut short and    *)
(* one whose header has a high nibble above 7; Opus of three packets and   *)
(* of none; a codec decode_channel has no branch for                       *)
DecodeChannels ==
  {DecChannel(0, 3, <<1, 0, 255, 255, 0, 128>>, 0, 0, <<>>),
   DecChannel(0, 0, <<>>, 0, 0, <<>>),
   DecChannel(0, 1, <<1, 0, 2>>, 0, 0, <<>>),
   DecChannel(1, 14, <<0>> \o FrameData, 0, 0, <<>>),
   DecChannel(1, 15, <<0>> \o FrameData \o <<1, 112>>, 0, 0, <<>>),
   DecChannel(1, 28, <<113>> \o FrameData \o <<34>> \o FrameData, 100, -50, <<>>),
   DecChannel(1, 14, <<0, 18, 52>>, 0, 0, <<>>),
   DecChannel(1, 14, <<128>> \o FrameData, 0, 0, <<>>),
   DecChannel(2, 5, <<>>, 0, 0, <<<<1, 0, 2, 0>>, <<3, 0>>, <<4, 0, 5, 0>>>>),
   DecChannel(2, 0, <<>>, 0, 0, <<>>),
   DecChannel(3, 3, <<1, 0, 2, 0, 3, 0>>, 0, 0, <<>>)}

DecodeInit ==
  /\ \E ch \in DecodeChannels :
       dec = [ch |-> ch, cached |-> FALSE, cache |-> <<>>, calls |-> 0, sample_limit |-> 0,
              raised |-> FALSE, result |-> <<>>, partial |-> FALSE]
  /\ pad = NoCall /\ conv = NoCall
  /\ NoContainer

Decoded(sample_limit) ==
  LET got == decode_channel(dec.ch, dec.cached, dec.cache, sample_limit)
  IN /\ dec' = [dec EXCEPT !.cached = got.cached, !.cache = got.cache, !.calls = @ + 1,
                           !.sample_limit = sample_limit, !.raised = got.raised,
                           !.result = got.dst, !.partial = @ \/ got.reduced]
     /\ UNCHANGED <<bars, prev, last, steps, pad, conv>>

DecodeChannel ==
  /\ dec.calls < MaxCalls
  /\ \E sample_limit \in (-1)..MaxLimit : Decoded(sample_limit)

DecodeNext == DecodeChannel

DecodeSpec == DecodeInit /\ [][DecodeNext]_vars

(* The DSP-ADPCM decode on its own: one or two frames under every header   *)
(* byte, decoded whole                                                     *)
AdpcmChannels ==
  {DecChannel(1, n,
              SubSeq(<<header>> \o FrameData \o <<header>> \o FrameData, 1,
                     (n + 1) \div 2 + (n + 13) \div 14),
              hist[1], hist[2], <<>>) :
     header \in 0..255, n \in {0, 1, 14, 15}, hist \in {<<0, 0>>, <<100, -50>>}}

AdpcmInit ==
  /\ \E ch \in AdpcmChannels :
       dec = [ch |-> ch, cached |-> FALSE, cache |-> <<>>, calls |-> 0, sample_limit |-> 0,
              raised |-> FALSE, result |-> <<>>, partial |-> FALSE]
  /\ pad = NoCall /\ conv = NoCall
  /\ NoContainer

DecodeWhole ==
  /\ dec.calls = 0
  /\ Decoded(0)

AdpcmNext == DecodeWhole

AdpcmSpec == AdpcmInit /\ [][AdpcmNext]_vars

----------------------------------------------------------------------------
(* C11: a replace never raises: given a structured asset whose codec is    *)
(* none of 0, 1, 2 for a prefetch entry, it returns (a failure or a        *)
(* success).                                                               *)
C11_ReplaceNeverRaises ==
  IsReplace => ~last.raised

----------------------------------------------------------------------------
(* C12: the size field written by write is the number of bytes written     *)
(* and is get_size() of the container with its offsets recomputed, also    *)
(* with no entry and with an empty asset.                                  *)
C12_SizeFieldIsFileLength ==
  last.op = "write" =>
    /\ bars.size = last.emitted
    /\ bars.size = Bars_get_size(bars)

----------------------------------------------------------------------------
----------------------------------------------------------------------------
(* C14: for a position >= 0 and a multiplier >= 1, pad_count is the         *)
(* smallest k >= 0 with (pos + k) % multiplier = 0, and pad_till is         *)
(* pos + pad_count, is >= pos, is a multiple of the multiplier and is less  *)
(* than one multiplier above pos.                                          *)
C14_PadIsSmallest ==
  pad.called =>
    /\ pad.count >= 0
    /\ (pad.pos + pad.count) % pad.multiplier = 0
    /\ \A k \in 0..(pad.count - 1) : (pad.pos + k) % pad.multiplier # 0
    /\ pad.till = pad.pos + pad.count
    /\ pad.till >= pad.pos
    /\ pad.till % pad.multiplier = 0
    /\ pad.till - pad.pos < pad.multiplier

(* pad_count answered 0 for an aligned position above 0 of a multiplier    *)
(* above 1                                                                 *)
C14_Witness ==
  /\ pad.called
  /\ pad.multiplier > 1
  /\ pad.pos > 0
  /\ pad.pos % pad.multiplier = 0
  /\ pad.count = 0

----------------------------------------------------------------------------
(* the bytes Amta.write puts into a file when the writer stands at pos *)
Emitted(m, pos) ==
  LET W == Amta_write(m, pos)
  IN ReadImage(W, ImageEnd(W), pos, ImageEnd(W) - pos)

MetaPos(b, i) == IF i \in DOMAIN b.meta_offsets THEN b.meta_offsets[i] ELSE 0

----------------------------------------------------------------------------
(* C20: in the layout calculate_offsets computes (in write and in an       *)
(* insert), the first metadata offset is the fixed header plus the hash    *)
(* array plus the offset pairs plus the trailer, every further one is the  *)
(* offset before it plus the size of the record before it, the records do  *)
(* not overlap, and the last record ends at or before the first asset.     *)
C20_MetaOffsetsRunningSum ==
  (last.op = "write" \/ IsInsert) =>
    LET n == Len(bars.meta_offsets)
        end(i) == bars.meta_offsets[i] + Amta_get_size(bars.metas[i])
    IN /\ n > 0 =>
            bars.meta_offsets[1] = BarsFixedHeader + HashEntrySize * bars.meta_count
                                     + PairEntrySize * bars.meta_count + bars.unknown
       /\ \A i \in 2..n : bars.meta_offsets[i] = end(i - 1)
       /\ \A i, j \in 1..n : i < j => end(i) <= bars.meta_offsets[j]
       /\ n > 0 => end(n) <= bars.asset_offsets[1]

----------------------------------------------------------------------------
(* C16: when convert_to_prefetch returns true for an asset that was not    *)
(* prefetch, every channel it converted holds exactly the byte budget of   *)
(* its codec (8192 for PCM16 and DSP-ADPCM, 74240 for Opus) and the        *)
(* prefetch flag of the asset is set.                                      *)
C16_ConvertedChannelsHoldBudget ==
  (conv.called /\ ~conv.raised /\ conv.res /\ conv.a.parsed /\ ~conv.a.prefetch) =>
    /\ conv.after.prefetch
    /\ \A i \in DOMAIN conv.a.ch :
         Qualifies(conv.a.ch[i]) =>
           ByteLen(conv.after.ch[i].data)
             = (IF conv.a.ch[i].codec = 2 THEN OpusPrefetchBytes ELSE PrefetchBytes)

----------------------------------------------------------------------------
(* C17: convert_to_prefetch changes nothing when it does not convert: for  *)
(* an asset already prefetch it returns true, for an asset of which no     *)
(* channel meets the requirement of its codec it returns false, and in     *)
(* both cases the header and every channel (fields and sample bytes) are   *)
(* as before.                                                              *)
C17_NoConversionNoChange ==
  (conv.called /\ conv.a.parsed
     /\ \A i \in DOMAIN conv.a.ch : conv.a.ch[i].codec \in KnownCodecs) =>
    /\ conv.a.prefetch => (conv.res /\ ~conv.raised /\ conv.after = conv.a)
    /\ (~conv.a.prefetch /\ \A i \in DOMAIN conv.a.ch : ~Qualifies(conv.a.ch[i])) =>
         (~conv.res /\ ~conv.raised /\ conv.after = conv.a)

(* convert_to_prefetch returned for a prefetch asset with a channel that   *)
(* is above the budget and a channel that is below it                      *)
C17_Witness ==
  /\ conv.called
  /\ conv.a.parsed /\ conv.a.prefetch
  /\ Len(conv.a.ch) = 2
  /\ conv.a.ch[1].codec = 0 /\ ByteLen(conv.a.ch[1].data) > PrefetchBytes
  /\ conv.a.ch[2].codec = 2 /\ ~Qualifies(conv.a.ch[2])
  /\ conv.res

----------------------------------------------------------------------------
(* C18: after any sequence of decode_channel calls with any limits, the    *)
(* cache entry of the channel, when there is one, is the full decode of    *)
(* the channel, and a call with limit 0 returns the full decode.           *)
C18_CacheHoldsFullDecode ==
  LET full == decode_channel(dec.ch, FALSE, <<>>, 0)
  IN /\ dec.cached => (~full.raised /\ dec.cache = full.dst)
     /\ (dec.calls > 0 /\ dec.sample_limit = 0 /\ ~dec.raised) => dec.result = full.dst

(* a decode of the 15-sample ADPCM channel stopped at its limit, and the   *)
(* call with limit 0 after it returned the 15 samples                      *)
C18_Witness ==
  /\ dec.partial
  /\ dec.ch.codec = 1 /\ dec.ch.num_samples = 15
  /\ dec.sample_limit = 0
  /\ dec.cached /\ Len(dec.result) = 15

----------------------------------------------------------------------------
(* C19: the DSP-ADPCM decode of a channel of N declared samples returns N  *)
(* samples; in each frame of 14 samples the high nibble p of the header    *)
(* byte selects the coefficients coefs[2p], coefs[2p+1], the low nibble s  *)
(* the scale 2^s, and each sample is                                       *)
(* clamp((scale * r * 2048 + 1024 + c1*h1 + c2*h2) >> 11) with r the       *)
(* signed 4-bit residual, high nibble first, h1 and h2 the two samples     *)
(* before it; no header byte 0..255 makes the decode fail.                 *)
C19_AdpcmDecodesEveryHeader ==
  dec.calls = 1 =>
    /\ ~dec.raised
    /\ Len(dec.result) = dec.ch.num_samples
    /\ \A i \in 1..dec.ch.num_samples :
         LET frame == (i - 1) \div 14
             at == (i - 1) % 14
             header == dec.ch.src[frame * 8 + 1]
             p == header \div 16
             scale == 2 ^ (header % 16)
             byte == dec.ch.src[frame * 8 + 2 + at \div 2]
             nibble == IF at % 2 = 0 THEN byte \div 16 ELSE byte % 16
             r == IF nibble >= 8 THEN nibble - 16 ELSE nibble
             h1 == IF i = 1 THEN dec.ch.hist1 ELSE dec.result[i - 1]
             h2 == IF i = 1 THEN dec.ch.hist2
                   ELSE IF i = 2 THEN dec.ch.hist1 ELSE dec.result[i - 2]
             value == (scale * r * 2048 + 1024 + dec.ch.coefs[2 * p + 1] * h1
                         + dec.ch.coefs[2 * p + 2] * h2) \div 2048
         IN dec.result[i] = Clamp(value)

----------------------------------------------------------------------------
(* the entries that are the first reference of their asset *)
FirstRefs(b) ==
  {k \in Entries(b) : \A j \in 1..(k - 1) : b.assets[j].oid # b.assets[k].oid}

(* C21: write lays the assets out as a running sum over the distinct       *)
(* assets: entries that reference one asset get one offset, and the offset *)
(* of each distinct asset is the offset of the distinct asset before it    *)
(* plus that asset's size padded to 64.                                    *)
C21_SharedAssetWrittenOnce ==
  last.op = "write" =>
    /\ \A j, k \in Entries(bars) :
         bars.assets[j].oid = bars.assets[k].oid
           => bars.asset_offsets[j] = bars.asset_offsets[k]
    /\ \A k \in FirstRefs(bars) :
         \A j \in FirstRefs(bars) :
           (j < k /\ \A m \in FirstRefs(bars) : ~(j < m /\ m < k)) =>
             bars.asset_offsets[k] = bars.asset_offsets[j] + PaddedSize(bars.assets[j])

----------------------------------------------------------------------------
(* C23: after convert_to_prefetch returned true for an asset of several    *)
(* channels that was not prefetch, the start of each channel after the     *)
(* first is the start of the channel before it plus the number of sample   *)
(* bytes that channel holds, so that no two sample regions overlap.        *)
C23_StartsAreRunningSum ==
  (conv.called /\ ~conv.raised /\ conv.res /\ conv.a.parsed /\ ~conv.a.prefetch
     /\ Len(conv.a.ch) > 1) =>
    /\ \A i \in 1..(Len(conv.after.ch) - 1) :
         conv.after.ch[i + 1].start
           = conv.after.ch[i].start + ByteLen(conv.after.ch[i].data)
    /\ \A i, j \in DOMAIN conv.after.ch :
         i < j => conv.after.ch[i].start + ByteLen(conv.after.ch[i].data)
                    <= conv.after.ch[j].start

----------------------------------------------------------------------------
(* Bwav.__init__ on its own: the bytes Bwav.write makes of an asset whose   *)
(* channels are not Opus, then the asset the constructor makes of them     *)

(* the channels laid out one after the other behind the header *)
RECURSIVE StartBehindHeader(_, _)
StartBehindHeader(chs, i) ==
  IF i = 1 THEN pad_till(HeaderLen(Len(chs)), Align)
  ELSE StartBehindHeader(chs, i - 1) + pad_till(ByteLen(chs[i - 1].data), Align)

LoadAssets ==
  {Bwav(0, prefetch, [i \in DOMAIN chs |-> [chs[i] EXCEPT !.start = StartBehindHeader(chs, i)]]) :
     prefetch \in BOOLEAN,
     chs \in {l \in ChannelLists : \A i \in DOMAIN l : l[i].codec # 2}}

BufferOf(a) == ReadImage(Bwav_write(a, 0), ImageEnd(Bwav_write(a, 0)), 0, ImageEnd(Bwav_write(a, 0)))

LoadInit ==
  /\ \E a \in LoadAssets :
       conv = [a |-> a, called |-> FALSE, buffer |-> BufferOf(a), after |-> a]
  /\ pad = NoCall /\ dec = NoCall
  /\ NoContainer

LoadFromBytes ==
  /\ ~conv.called
  /\ ~LoadRaises(conv.buffer)
  /\ conv' = [conv EXCEPT !.called = TRUE, !.after = load_asset_from_bytes(conv.buffer, 1)]
  /\ UNCHANGED <<bars, prev, last, steps, pad, dec>>

LoadNext == LoadFromBytes

LoadSpec == LoadInit /\ [][LoadNext]_vars

(* C24: when the constructor has read an asset of several channels, none   *)
(* of them Opus, the bytes of each channel but the last are the bytes of   *)
(* the buffer from its start to the start of the next channel, and the     *)
(* bytes of the last channel are those from its start to the end of the    *)
(* buffer.                                                                 *)
C24_ChannelSpansToNextStart ==
  (conv.called /\ conv.after.parsed /\ Len(conv.after.ch) > 1) =>
    \A i \in DOMAIN conv.after.ch :
      conv.after.ch[i].data
        = Slice(conv.buffer, conv.after.ch[i].start,
                IF i < Len(conv.after.ch) THEN conv.after.ch[i + 1].start
                ELSE ByteLen(conv.buffer))

----------------------------------------------------------------------------
(* C25: when a replace called without permission to resize succeeds, the   *)
(* size get_size computes and every asset offset are what they were before *)
(* the call, whichever entry was replaced.                                 *)
C25_NoResizeKeepsSizeAndOffsets ==
  (IsReplace /\ last.res /\ ~last.resize) =>
    /\ Bars_get_size(bars) = Bars_get_size(prev)
    /\ bars.asset_offsets = prev.asset_offsets

----------------------------------------------------------------------------
(* Amta.write on its own: a record create_new_amta built, and a writer      *)
(* standing at pos                                                         *)

RecordNames == 1..5

RecordInit ==
  /\ \E name \in RecordNames, pos \in 0..MaxPos :
       pad = [m |-> create_new_amta(name), pos |-> pos, called |-> FALSE, emitted |-> 0]
  /\ conv = NoCall /\ dec = NoCall
  /\ NoContainer

WriteRecord ==
  /\ ~pad.called
  /\ pad' = [pad EXCEPT !.called = TRUE, !.emitted = ByteLen(Emitted(pad.m, pad.pos))]
  /\ UNCHANGED <<bars, prev, last, steps, conv, dec>>

RecordNext == WriteRecord

RecordSpec == RecordInit /\ [][RecordNext]_vars

(* C26: for a record create_new_amta built, the number of bytes write      *)
(* emits is the value of get_size, at whatever offset it is written.       *)
C26_FreshRecordEmitsItsSize ==
  pad.called => pad.emitted = Amta_get_size(pad.m)

----------------------------------------------------------------------------
(* the decode of the whole channel, nothing cached *)
FullDecode(ch) == decode_channel(ch, FALSE, <<>>, 0)

(* C27: a decode of a PCM16 or DSP-ADPCM channel with a limit above zero   *)
(* returns the first min(limit, N) samples of the decode of the whole      *)
(* channel, N being their number, whether the cache was filled or not.     *)
C27_LimitedDecodeIsPrefix ==
  (/\ dec.calls > 0
   /\ dec.sample_limit > 0
   /\ dec.ch.codec \in {0, 1}
   /\ ~dec.raised
   /\ ~FullDecode(dec.ch).raised) =>
    dec.result = Take(FullDecode(dec.ch).dst, dec.sample_limit)

----------------------------------------------------------------------------
(* C28: every container file opened has its asset offsets at multiples of  *)
(* 64; after any sequence of inserts, replaces (of shared assets too) and  *)
(* writes every asset offset is still a multiple of 64.                    *)
C28_OffsetsStayAligned ==
  \A k \in DOMAIN bars.asset_offsets : bars.asset_offsets[k] % Align = 0

----------------------------------------------------------------------------
(* the last operation was an insert-or-replace whose hash was in the array *)
IsInsertOrReplace ==
  last.op \in {"add_or_replace_bwav", "add_or_replace_bwav_from_memory"}

HashPresent ==
  \E i \in DOMAIN prev.crc_hashes : prev.crc_hashes[i] = calculate_crc32_hash(last.name)

FirstMatch ==
  Min({i \in DOMAIN prev.crc_hashes : prev.crc_hashes[i] = calculate_crc32_hash(last.name)})

Replaced == IF last.op = "add_or_replace_bwav" THEN last.inner ELSE last.res

NoDuplicates(s) == \A i, j \in DOMAIN s : i # j => s[i] # s[j]

----------------------------------------------------------------------------
(* bars_transfer: the assets of a source container copied over the slots   *)
(* of a destination file.  bars holds the destination: the container       *)
(* parsed from the file (dest), the bytes of the file (dest_bytes), the     *)
(* size field and the offset pairs of its header (header), the entries      *)
(* already served (done) and whether the header was rewritten (written).   *)
(* last is the last replacement: entry, slot, padded size of the new data. *)

(* dest_bytes[start:end] = x on a bytearray: the bounds are clipped to the *)
(* buffer, an end below the start is the start                             *)
SliceAssign(b, start, end, x) ==
  LET len == ByteLen(b)
      lo == IF start < len THEN start ELSE len
      hi == IF end < lo THEN lo ELSE IF end < len THEN end ELSE len
  IN Norm(Slice(b, 0, lo) \o x \o Slice(b, hi, len))

(* the end of the slot that starts at start: the next higher offset, or    *)
(* the end of the buffer                                                   *)
SlotEnd(asset_offsets, dest_bytes, start) ==
  LET next_offsets == {asset_offsets[i] : i \in {j \in DOMAIN asset_offsets : asset_offsets[j] > start}}
  IN IF next_offsets # {} THEN Min(next_offsets) ELSE ByteLen(dest_bytes)

(* one replacement of transfer_bfwavs that leaves the later offsets alone *)
transfer_bfwavs_NoShift(bars_dest, dest_bytes, dest_idx, new_data) ==
  LET start == bars_dest.asset_offsets[dest_idx]
      end == SlotEnd(bars_dest.asset_offsets, dest_bytes, start)
      new_size == pad_till(ByteLen(new_data), Align)
      padded == new_data \o Zeros(new_size - ByteLen(new_data))
      size_diff == new_size - (end - start)
  IN [bars_dest |-> bars_dest,
      dest_bytes |-> SliceAssign(dest_bytes, start, end,
                                 IF size_diff <= 0 THEN padded \o Zeros(-size_diff) ELSE padded),
      start |-> start, end |-> end, new_size |-> new_size]

(* one replacement of the loop of transfer_bfwavs: the slot of entry       *)
(* dest_idx receives new_data                                              *)
transfer_bfwavs(bars_dest, dest_bytes, dest_idx, new_data) ==
  LET start == bars_dest.asset_offsets[dest_idx]
      end == SlotEnd(bars_dest.asset_offsets, dest_bytes, start)
      slot_size == end - start
      new_size == pad_till(ByteLen(new_data), Align)
      padded == new_data \o Zeros(new_size - ByteLen(new_data))
      size_diff == new_size - slot_size
      grown == SliceAssign(dest_bytes, start, end, padded)
  IN IF size_diff <= 0
     THEN [bars_dest |-> bars_dest,
           dest_bytes |-> SliceAssign(dest_bytes, start, end, padded \o Zeros(-size_diff)),
           start |-> start, end |-> end, new_size |-> new_size]
     ELSE [bars_dest |->
             [bars_dest EXCEPT
                !.asset_offsets = [i \in DOMAIN @ |-> IF @[i] > start THEN @[i] + size_diff ELSE @[i]],
                !.size = ByteLen(grown)],
           dest_bytes |-> grown,
           start |-> start, end |-> end, new_size |-> new_size]

(* write_header_updates: the size field is the length of the buffer, the   *)
(* asset half of each offset pair is the offset of the entry               *)
write_header_updates(header, dest_bytes, bars_dest) ==
  [size |-> ByteLen(dest_bytes),
   pairs |-> [idx \in DOMAIN header.pairs |->
                IF idx <= bars_dest.meta_count /\ idx <= Len(bars_dest.asset_offsets)
                THEN [header.pairs[idx] EXCEPT !.a = bars_dest.asset_offsets[idx]]
                ELSE header.pairs[idx]]]

(* asset_to_bytes of the assets of the source container *)
asset_to_bytes(asset) == BufferOf(asset)

TransferInit ==
  /\ \E f \in InputFiles :
       /\ ~ParseRaises(f)
       /\ bars = [dest |-> Bars_parse(f, 0),
                  dest_bytes |-> ReadImage(f.W, f.flen, 0, f.flen),
                  header |-> [size |-> f.size, pairs |-> f.pairs],
                  done |-> {}, written |-> FALSE]
  /\ prev = bars
  /\ last = [op |-> "parse", dest_idx |-> 0, start |-> 0, end |-> 0, new_size |-> 0]
  /\ steps = 0
  /\ NoCalls

Replacement ==
  /\ steps < MaxOps
  /\ ~bars.written
  /\ \E k \in AssetFiles :
       \E dest_idx \in (DOMAIN bars.dest.assets \cap DOMAIN bars.dest.metas) \ bars.done :
         LET got == transfer_bfwavs(bars.dest, bars.dest_bytes, dest_idx,
                                    asset_to_bytes(AssetFile(k, 0)))
         IN /\ bars' = [bars EXCEPT !.dest = got.bars_dest, !.dest_bytes = got.dest_bytes,
                                    !.done = @ \cup {dest_idx}]
            /\ last' = [op |-> "replacement", dest_idx |-> dest_idx, start |-> got.start,
                        end |-> got.end, new_size |-> got.new_size]
  /\ prev' = bars
  /\ steps' = steps + 1
  /\ UNCHANGED <<pad, conv, dec>>

WriteHeaderUpdates ==
  /\ ~bars.written
  /\ bars' = [bars EXCEPT !.header = write_header_updates(@, bars.dest_bytes, bars.dest),
                          !.written = TRUE]
  /\ prev' = bars
  /\ last' = [last EXCEPT !.op = "write_header_updates"]
  /\ UNCHANGED <<steps, pad, conv, dec>>

TransferNext == Replacement \/ WriteHeaderUpdates

TransferSpec == TransferInit /\ [][TransferNext]_vars

(* what the last replacement had to add to its slot *)
Growth == IF last.new_size > last.end - last.start THEN last.new_size - (last.end - last.start) ELSE 0

(* the length of the slot that starts at offset off of buffer b *)
SlotLen(asset_offsets, b, off) == SlotEnd(asset_offsets, b, off) - off

(* C30: a replacement of the slot [start, end) by data of padded size n    *)
(* moves every asset offset above start by g = max(0, n - (end - start)),  *)
(* leaves every offset up to start as it was, makes the buffer g bytes     *)
(* longer, and the bytes of every asset outside the slot, read at its new  *)
(* offset, are the bytes it had before.                                    *)
C30_ReplacementKeepsOtherAssets ==
  last.op = "replacement" =>
    LET old == prev.dest.asset_offsets
        new == bars.dest.asset_offsets
    IN /\ DOMAIN new = DOMAIN old
       /\ \A i \in DOMAIN old :
            new[i] = IF old[i] > last.start THEN old[i] + Growth ELSE old[i]
       /\ ByteLen(bars.dest_bytes) = ByteLen(prev.dest_bytes) + Growth
       /\ \A i \in DOMAIN old :
            old[i] # last.start =>
              Slice(bars.dest_bytes, new[i], new[i] + SlotLen(old, prev.dest_bytes, old[i]))
                = Slice(prev.dest_bytes, old[i], old[i] + SlotLen(old, prev.dest_bytes, old[i]))

(* a replacement made its slot longer, with an asset before the slot and   *)
(* one behind it                                                           *)
C30_Witness ==
  /\ last.op = "replacement"
  /\ Growth > 0
  /\ \E i, j \in DOMAIN prev.dest.asset_offsets :
       /\ prev.dest.asset_offsets[i] < last.start
       /\ prev.dest.asset_offsets[j] > last.start

----------------------------------------------------------------------------
(* Decodes and conversions of one asset, with its cache of decoded         *)
(* channels.  conv is the asset (a), decoded_channels (cache), the last    *)
(* operation (op; for a decode its channel idx and the PCM of the samples  *)
(* returned, result), the channels whose bytes a conversion replaced and   *)
(* that were not decoded since (replaced), whether the channel of the last *)
(* decode was one of them (after_replace), and the number of operations.   *)

MaxConvSteps == 3

(* the PCM of the samples decode_channel(idx) computes from the channel:   *)
(* the bytes themselves for PCM16, num_samples_this samples for DSP-ADPCM,  *)
(* the decoder's output for Opus, nothing for another codec                *)
DecodedPcm(c) ==
  CASE c.codec = 0 -> c.data
    [] c.codec = 1 -> Bytes(200 + (IF c.data = <<>> THEN 0 ELSE c.data[1].t), 2 * c.nsamp)
    [] c.codec = 2 -> OpusPcm(c.data)
    [] OTHER -> <<>>

(* decode_channel(idx) with the cache: the entry if there is one, else the *)
(* decode, which becomes the entry                                         *)
decode_channel_cached(a, cache, idx) ==
  IF Truthy(cache[idx]) THEN [pcm |-> cache[idx].pcm, cache |-> cache]
  ELSE [pcm |-> DecodedPcm(a.ch[idx]),
        cache |-> [cache EXCEPT ![idx] = Entry(DecodedPcm(a.ch[idx]))]]

RECURSIVE OpusStart(_, _, _)
OpusStart(a, cache, i) ==
  IF i = 1 THEN a.ch[1].start
  ELSE OpusStart(a, cache, i - 1)
         + pad_till(ByteLen(OpusEncoded(decode_channel_cached(a, cache, i - 1).pcm)), Align)

(* Bwav.convert_to_opus: raises for an opaque asset, an Opus channel or a   *)
(* prefetch asset; else every channel is decoded through the cache and     *)
(* encoded, and the channels are laid out one after the other              *)
convert_to_opus(a, cache) ==
  IF ~a.parsed \/ a.prefetch \/ \E i \in DOMAIN a.ch : a.ch[i].codec = 2
  THEN [raised |-> TRUE, a |-> a, cache |-> cache]
  ELSE [raised |-> FALSE,
        a |-> [a EXCEPT !.ch =
                 [i \in DOMAIN a.ch |->
                    Channel(2, a.ch[i].nsamp, OpusStart(a, cache, i),
                            OpusEncoded(decode_channel_cached(a, cache, i).pcm))]],
        cache |-> [i \in DOMAIN a.ch |-> decode_channel_cached(a, cache, i).cache[i]]]

StaleInit ==
  /\ \E a \in ConvAssets :
       conv = [a |-> a, cache |-> NothingCached(a), op |-> "load", idx |-> 0, result |-> <<>>,
               replaced |-> {}, after_replace |-> FALSE, steps |-> 0]
  /\ pad = NoCall /\ dec = NoCall
  /\ NoContainer

Replaces(a, b) == {i \in DOMAIN a.ch : b.ch[i].data # a.ch[i].data}

DecodeCached ==
  /\ conv.steps < MaxConvSteps
  /\ \E idx \in DOMAIN conv.a.ch :
       LET got == decode_channel_cached(conv.a, conv.cache, idx)
       IN conv' = [conv EXCEPT !.cache = got.cache, !.op = "decode", !.idx = idx,
                              !.result = got.pcm, !.replaced = @ \ {idx},
                              !.after_replace = idx \in conv.replaced, !.steps = @ + 1]
  /\ UNCHANGED <<bars, prev, last, steps, pad, dec>>

ConvertCachedToPrefetch ==
  /\ conv.steps < MaxConvSteps
  /\ LET cv == convert_to_prefetch_cached(conv.a, conv.cache)
     IN conv' = [conv EXCEPT !.a = cv.a, !.cache = cv.cache, !.op = "convert_to_prefetch",
                            !.replaced = @ \cup Replaces(conv.a, cv.a), !.steps = @ + 1]
  /\ UNCHANGED <<bars, prev, last, steps, pad, dec>>

ConvertToOpus ==
  /\ conv.steps < MaxConvSteps
  /\ LET cv == convert_to_opus(conv.a, conv.cache)
     IN conv' = [conv EXCEPT !.a = cv.a, !.cache = cv.cache, !.op = "convert_to_opus",
                            !.replaced = @ \cup Replaces(conv.a, cv.a), !.steps = @ + 1]
  /\ UNCHANGED <<bars, prev, last, steps, pad, dec>>

StaleNext == DecodeCached \/ ConvertCachedToPrefetch \/ ConvertToOpus

StaleSpec == StaleInit /\ [][StaleNext]_vars

(* C22: the first decode of a channel after convert_to_prefetch or         *)
(* convert_to_opus replaced its bytes returns the samples computed from    *)
(* the bytes the channel holds now, never an entry cached before.          *)
C22_DecodeAfterConversionIsFresh ==
  (conv.op = "decode" /\ conv.after_replace) =>
    conv.result = DecodedPcm(conv.a.ch[conv.idx])

=============================================================================
